---- MODULE Spec2Model ----
(***************************************************************************)
(* Transaction lifecycle of stellar-wrap-frontend: the persisted zustand   *)
(* store (app/store/transactionStore.ts) and the TransactionObserver       *)
(* singleton with its confirmation poller                                  *)
(* (services/transactionObserver.ts).                                      *)
(***************************************************************************)
EXTENDS Integers, FiniteSets, Sequences, TLC

\* ---------------------------------------------------------------- bounds
MaxSessions == 2        \* polling sessions (timer pairs) ever created
MaxInFlight == 2        \* getTransaction promises pending at one time
MaxCalls == 2           \* invocations of mintWrap

\* ------------------------------------------------------ program constants
MAX_POLLING_DURATION == 60000
POLLING_INTERVAL == 3000

Null == "null"
TimeoutMessage == "Transaction confirmation timed out after 60 seconds."
LedgerFailedMessage == "Transaction failed on the ledger."

TransactionState ==
  {"idle", "building", "simulating", "simulated", "signing", "signed",
   "submitting", "submitted", "confirming", "confirmed", "failed"}

\* rpc.Api.GetTransactionStatus plus a rejected promise
GetTransactionStatus == {"SUCCESS", "FAILED", "NOT_FOUND"}
Responses == GetTransactionStatus \cup {"THROWS"}

\* inputs of the mutators
Hashes == {"h1", "h2"}
ErrorInputs ==
  { [kind |-> "Error", message |-> "rejected by user"],
    [kind |-> "string", value |-> "submission failed"] }

Sessions == 1..MaxSessions

\* ------------------------------------------------------- mintWrap: inputs
CallIds == 1..MaxCalls

\* the errors that mintWrap re-throws as they are
TypedErrors ==
  {"ContractConfigurationError", "InvalidContractAddressError",
   "ContractNotFoundError", "ContractValidationError"}

GenericMessage == "Minting failed: Unknown error occurred"
\* the head of the message invokeMintWrapContract throws
PendingMessage == "Contract integration pending."

\* what a step of mintWrap can throw: a typed error, another Error, or a
\* value that is no Error
Throwables ==
  [kind : TypedErrors, message : {"contract misconfigured"}]
    \cup { [kind |-> "Error", message |-> "User rejected the request"],
           [kind |-> "value", message |-> Null] }

\* params.observer: absent, a callback that returns, a callback that throws
ObserverKinds == {"none", "returns", "throws"}

DefaultStats ==
  [totalVolume |-> 0, mostActiveAsset |-> "XLM", contractCalls |-> 0]

SuppliedStats ==
  [totalVolume |-> 45000, mostActiveAsset |-> "USDC", contractCalls |-> 120]

\* a field that is undefined: -1 for a number, "" for a string
NoStats ==
  [totalVolume |-> -1, mostActiveAsset |-> "", contractCalls |-> -1]

\* params.stats
StatsInputs == {NoStats, SuppliedStats}

\* the outcome of fetch("/api/wrapped?..."): a rejection, a response that
\* is not ok, or a body whose fields are present or missing
FetchOutcomes ==
  { [kind |-> "rejects", data |-> NoStats],
    [kind |-> "notOk", data |-> NoStats],
    [kind |-> "ok", data |-> [totalVolume |-> 7, mostActiveAsset |-> "AQUA",
                              contractCalls |-> 3]],
    [kind |-> "ok", data |-> NoStats] }

\* the states the contract bridge reports to its observer, with their data
BridgeStates ==
  {"pending", "simulating", "signed", "submitted", "confirmed", "failed"}

NoData == [kind |-> "none", value |-> Null]

DataFor(state) ==
  CASE state = "confirmed" ->
         {NoData} \cup [kind : {"transactionHash"}, value : Hashes]
    [] state = "failed" ->
         {NoData, [kind |-> "error", value |-> "simulation failed"]}
    [] OTHER -> {NoData}

\* an invocation: where it stands, the observer it was given, and whether
\* it has changed the store since mintWrap was called
NotCalled == [pc |-> "notCalled", observer |-> "none", changed |-> FALSE]

Done(pc) == [pc |-> pc, observer |-> "none", changed |-> FALSE]

VARIABLES
  transactionState,   \* store: the tag
  transactionHash,    \* store: string | null
  transactionError,   \* store: string | null
  pollInterval,       \* observer: handle of the setInterval timer, 0 = null
  timeoutTimer,       \* observer: handle of the setTimeout timer, 0 = null
  intervals,          \* runtime: the setInterval timers that are armed
  timeouts,           \* runtime: the setTimeout timers that are armed
  elapsed,            \* ms since the armed timers were set
  nextTick,           \* ms (since arming) at which the interval fires next
  sessions,           \* number of timer pairs created so far
  txHashOf,           \* txHash captured by the closures of each session
  inflight,           \* pending server.getTransaction promises per session
  lastEvent,          \* history: the last operation or callback that ran
  lastCall,           \* history: the last method called on the observer
  isInitialized,      \* walletKit: StellarWalletsKit.init has run
  calls,              \* the invocations of mintWrap and where each one stands
  owner,              \* history: the invocation that reset the store last
  lastMint            \* history: the last step an invocation of mintWrap took

mintVars == <<isInitialized, calls, owner, lastMint>>

vars == <<transactionState, transactionHash, transactionError, pollInterval,
          timeoutTimer, intervals, timeouts, elapsed, nextTick, sessions, txHashOf, inflight,
          lastEvent, lastCall, mintVars>>

\* The store and the observer's fields as one value, so that the bodies of
\* the methods can be composed in the order the code runs them.
Cur ==
  [ transactionState |-> transactionState,
    transactionHash  |-> transactionHash,
    transactionError |-> transactionError,
    pollInterval     |-> pollInterval,
    timeoutTimer     |-> timeoutTimer,
    intervals        |-> intervals,
    timeouts         |-> timeouts,
    elapsed          |-> elapsed,
    nextTick         |-> nextTick,
    sessions         |-> sessions,
    txHashOf         |-> txHashOf ]

\* the closures of a session are reachable while its timers are armed or one
\* of its queries is pending; afterwards the captured txHash is garbage
Reachable(captured, armed, pending) ==
  [s \in Sessions |->
     IF armed = s \/ pending[s] > 0 THEN captured[s] ELSE Null]

Commit(m, pending) ==
  /\ transactionState' = m.transactionState
  /\ transactionHash' = m.transactionHash
  /\ transactionError' = m.transactionError
  /\ pollInterval' = m.pollInterval
  /\ timeoutTimer' = m.timeoutTimer
  /\ intervals' = m.intervals
  /\ timeouts' = m.timeouts
  /\ elapsed' = m.elapsed
  /\ nextTick' = m.nextTick
  /\ sessions' = m.sessions
  /\ txHashOf' = Reachable(m.txHashOf, m.pollInterval, pending)
  /\ inflight' = pending

\* live: whether timers were armed when a method was called; for a timer
\* callback or a settled query, whether the timers of its own session were
CallEvent(op, s, a) ==
  [op |-> op, sess |-> s, arg |-> a, live |-> pollInterval # 0]

CallbackEvent(op, s, a) ==
  [op |-> op, sess |-> s, arg |-> a, live |-> pollInterval = s]

\* ------------------------------------------------------------- the store
setTransactionState(m, state) == [m EXCEPT !.transactionState = state]

setTransactionHash(m, hash) == [m EXCEPT !.transactionHash = hash]

setTransactionError(m, error) == [m EXCEPT !.transactionError = error]

resetTransaction(m) ==
  [m EXCEPT !.transactionState = "idle",
            !.transactionHash = Null,
            !.transactionError = Null]

\* ---------------------------------------------------- TransactionObserver
setState(m, state) == setTransactionState(m, state)

\* clearInterval / clearTimeout disarm the timer the field refers to
clearTimers(m) ==
  LET m1 == IF m.pollInterval # 0
              THEN [m EXCEPT !.intervals = @ \ {m.pollInterval},
                             !.pollInterval = 0]
              ELSE m
      m2 == IF m1.timeoutTimer # 0
              THEN [m1 EXCEPT !.timeouts = @ \ {m1.timeoutTimer},
                              !.timeoutTimer = 0]
              ELSE m1
  IN  [m2 EXCEPT !.elapsed = 0, !.nextTick = 0]

errorMessageOf(error) ==
  IF error.kind = "Error" THEN error.message ELSE error.value

markFailedMsg_keepsTimers(m, errorMessage) ==
  setState(setTransactionError(m, errorMessage), "failed")

\* markFailed after the conversion of its argument to a message
markFailedMsg(m, errorMessage) ==
  setState(setTransactionError(clearTimers(m), errorMessage), "failed")

markFailed(m, error) == markFailedMsg(m, errorMessageOf(error))

startPolling_noDeadline(m, txHash) ==
  LET m1 == setState(m, "confirming")
      m2 == clearTimers(m1)
      h  == m2.sessions + 1
  IN  [m2 EXCEPT !.pollInterval = h,
                 !.intervals = @ \cup {h},
                 !.elapsed = 0,
                 !.nextTick = POLLING_INTERVAL,
                 !.sessions = h,
                 !.txHashOf[h] = txHash]

startPolling_keepsTag(m, txHash) ==
  LET m2 == clearTimers(m)
      h  == m2.sessions + 1
  IN  [m2 EXCEPT !.pollInterval = h,
                 !.timeoutTimer = h,
                 !.intervals = @ \cup {h},
                 !.timeouts = @ \cup {h},
                 !.elapsed = 0,
                 !.nextTick = POLLING_INTERVAL,
                 !.sessions = h,
                 !.txHashOf[h] = txHash]

startPolling_noClear(m, txHash) ==
  LET m1 == setState(m, "confirming")
      h  == m1.sessions + 1
  IN  [m1 EXCEPT !.pollInterval = h,
                 !.timeoutTimer = h,
                 !.intervals = @ \cup {h},
                 !.timeouts = @ \cup {h},
                 !.elapsed = 0,
                 !.nextTick = POLLING_INTERVAL,
                 !.sessions = h,
                 !.txHashOf[h] = txHash]

startPolling(m, txHash) ==
  LET m1 == setState(m, "confirming")
      m2 == clearTimers(m1)
      h  == m2.sessions + 1
  IN  [m2 EXCEPT !.pollInterval = h,
                 !.timeoutTimer = h,
                 !.intervals = @ \cup {h},
                 !.timeouts = @ \cup {h},
                 !.elapsed = 0,
                 !.nextTick = POLLING_INTERVAL,
                 !.sessions = h,
                 !.txHashOf[h] = txHash]

resetState_keepsTimers(m) == resetTransaction(m)

resetState(m) == resetTransaction(clearTimers(m))

checkTransactionStatus_successKeepsTimers(m, response) ==
  CASE response = "SUCCESS" -> setState(m, "confirmed")
    [] response = "FAILED"  -> markFailedMsg(clearTimers(m), LedgerFailedMessage)
    [] OTHER -> m

checkTransactionStatus_failedIgnored(m, response) ==
  CASE response = "SUCCESS" -> setState(clearTimers(m), "confirmed")
    [] OTHER -> m

checkTransactionStatus_throwFails(m, response) ==
  CASE response = "SUCCESS" -> setState(clearTimers(m), "confirmed")
    [] response = "FAILED"  -> markFailedMsg(clearTimers(m), LedgerFailedMessage)
    [] response = "THROWS"  -> markFailedMsg(m, "query error")
    [] OTHER -> m

\* the part of checkTransactionStatus that runs once the query has settled
checkTransactionStatus(m, response) ==
  CASE response = "SUCCESS" -> setState(clearTimers(m), "confirmed")
    [] response = "FAILED"  -> markFailedMsg(clearTimers(m), LedgerFailedMessage)
    [] OTHER -> m

onTimeout_onlyClears(m) == clearTimers(m)

\* the setTimeout callback of startPolling
onTimeout(m) == markFailedMsg(clearTimers(m), TimeoutMessage)

resumeCondition_anyTag(m) == m.transactionHash # Null

resumeCondition(m) ==
  /\ m.transactionState \in {"submitted", "confirming"}
  /\ m.transactionHash # Null

Total(f) == LET RECURSIVE Sum(_)
                Sum(S) == IF S = {} THEN 0
                          ELSE LET x == CHOOSE y \in S : TRUE
                               IN f[x] + Sum(S \ {x})
            IN Sum(DOMAIN f)

\* ---------------------------------------------------- walletKit: mintWrap
orZero(v) == IF v = -1 \/ v = 0 THEN 0 ELSE v

orXLM(v) == IF v = "" THEN "XLM" ELSE v

fetchIndexedStats_noDefaults(outcome) ==
  IF outcome.kind = "ok"
    THEN [totalVolume     |-> orZero(outcome.data.totalVolume),
          mostActiveAsset |-> orXLM(outcome.data.mostActiveAsset),
          contractCalls   |-> orZero(outcome.data.contractCalls)]
    ELSE NoStats

fetchIndexedStats(outcome) ==
  IF outcome.kind = "ok"
    THEN [totalVolume     |-> orZero(outcome.data.totalVolume),
          mostActiveAsset |-> orXLM(outcome.data.mostActiveAsset),
          contractCalls   |-> orZero(outcome.data.contractCalls)]
    ELSE DefaultStats

\* resetTransaction(); setTransactionState("building")
mintBegin(m) == setTransactionState(resetTransaction(m), "building")

\* the switch of bridgedObserver
bridgedObserver(m, state, data) ==
  CASE state = "pending"    -> setTransactionState(m, "building")
    [] state = "simulating" -> setTransactionState(m, "simulating")
    [] state = "signed"     -> setTransactionState(m, "signing")
    [] state = "submitted"  -> setTransactionState(m, "submitting")
    [] state = "confirmed"  ->
         LET m1 == setTransactionState(m, "confirmed")
         IN  IF data.kind = "transactionHash"
               THEN setTransactionHash(m1, data.value) ELSE m1
    [] state = "failed"     ->
         LET m1 == setTransactionState(m, "failed")
         IN  IF data.kind = "error"
               THEN setTransactionError(m1, data.value) ELSE m1
    [] OTHER -> m

mintResolve_tagOnly(m, hash) == setTransactionState(m, "confirmed")

\* after contractMintWrap has resolved
mintResolve(m, hash) ==
  setTransactionHash(setTransactionState(m, "confirmed"), hash)

mintCatch_noMessage(m, e) ==
  IF e.kind \in TypedErrors THEN m ELSE setTransactionState(m, "failed")

\* the catch block of mintWrap: what it writes to the store
mintCatch(m, e) ==
  IF e.kind \in TypedErrors
    THEN m
    ELSE IF e.kind = "Error"
      THEN setTransactionError(setTransactionState(m, "failed"), e.message)
      ELSE setTransactionError(setTransactionState(m, "failed"),
                               GenericMessage)

\* the catch block of mintWrap: what it throws
mintRejection(e) ==
  IF e.kind \in TypedErrors
    THEN e
    ELSE IF e.kind = "Error"
      THEN [kind |-> "Error", message |-> "Minting failed: " \o e.message]
      ELSE [kind |-> "Error", message |-> GenericMessage]

\* ------------------------------- mintWrap as it calls transactionObserver
\* startTransaction(); markSimulating()
observedBegin(m) == setState(setState(resetState(m), "building"), "simulating")

\* every typed error is an Error too
instanceOfError(e) == e.kind # "value"

observedCatch(m, e) ==
  IF instanceOfError(e)
    THEN markFailed(m, [kind |-> "Error", message |-> e.message])
    ELSE markFailed(m, [kind |-> "Error", message |-> GenericMessage])

observedRejection(e) ==
  IF instanceOfError(e)
    THEN [kind |-> "Error", message |-> "Minting failed: " \o e.message]
    ELSE [kind |-> "Error", message |-> GenericMessage]

\* invokeMintWrapContract always throws
PendingError == [kind |-> "Error", message |-> PendingMessage]

\* ------------------------------------------------------------------ Init
Init ==
  /\ transactionState = "idle"
  /\ transactionHash = Null
  /\ transactionError = Null
  /\ pollInterval = 0
  /\ timeoutTimer = 0
  /\ intervals = {}
  /\ timeouts = {}
  /\ elapsed = 0
  /\ nextTick = 0
  /\ sessions = 0
  /\ txHashOf = [s \in Sessions |-> Null]
  /\ inflight = [s \in Sessions |-> 0]
  /\ lastEvent = [op |-> "init", sess |-> 0, arg |-> Null, live |-> FALSE]
  /\ lastCall = "init"
  /\ isInitialized = FALSE
  /\ calls = [c \in CallIds |-> NotCalled]
  /\ owner = 0
  /\ lastMint = [op |-> "init", call |-> 0, arg |-> Null, data |-> NoData,
                 result |-> Null, changed |-> FALSE, threw |-> FALSE,
                 superseded |-> FALSE]

\* --------------------------------------------------------------- mutators
StartTransaction ==
  /\ Commit(setState(resetState(Cur), "building"), inflight)
  /\ lastEvent' = CallEvent("startTransaction", 0, Null)
  /\ lastCall' = "startTransaction"
  /\ UNCHANGED mintVars

MarkSimulating ==
  /\ Commit(setState(Cur, "simulating"), inflight)
  /\ lastEvent' = CallEvent("markSimulating", 0, Null)
  /\ lastCall' = "markSimulating"
  /\ UNCHANGED mintVars

MarkSimulated ==
  /\ Commit(setState(Cur, "simulated"), inflight)
  /\ lastEvent' = CallEvent("markSimulated", 0, Null)
  /\ lastCall' = "markSimulated"
  /\ UNCHANGED mintVars

MarkSigning ==
  /\ Commit(setState(Cur, "signing"), inflight)
  /\ lastEvent' = CallEvent("markSigning", 0, Null)
  /\ lastCall' = "markSigning"
  /\ UNCHANGED mintVars

MarkSigned ==
  /\ Commit(setState(Cur, "signed"), inflight)
  /\ lastEvent' = CallEvent("markSigned", 0, Null)
  /\ lastCall' = "markSigned"
  /\ UNCHANGED mintVars

MarkSubmitting ==
  /\ Commit(setState(Cur, "submitting"), inflight)
  /\ lastEvent' = CallEvent("markSubmitting", 0, Null)
  /\ lastCall' = "markSubmitting"
  /\ UNCHANGED mintVars

MarkSubmitted ==
  \E txHash \in Hashes :
    /\ sessions < MaxSessions
    /\ Commit(startPolling(setState(setTransactionHash(Cur, txHash),
                                    "submitted"), txHash), inflight)
    /\ lastEvent' = CallEvent("markSubmitted", sessions + 1, txHash)
    /\ lastCall' = "markSubmitted"
    /\ UNCHANGED mintVars

MarkFailed ==
  \E error \in ErrorInputs :
    /\ Commit(markFailed(Cur, error), inflight)
    /\ lastEvent' = CallEvent("markFailed", 0, error)
    /\ lastCall' = "markFailed"
    /\ UNCHANGED mintVars

ResetState ==
  /\ Commit(resetState(Cur), inflight)
  /\ lastEvent' = CallEvent("resetState", 0, Null)
  /\ lastCall' = "resetState"
  /\ UNCHANGED mintVars

ResumeIfPending ==
  /\ IF resumeCondition(Cur)
       THEN /\ sessions < MaxSessions
            /\ Commit(startPolling(Cur, transactionHash), inflight)
            /\ lastEvent' = CallEvent("resumeIfPending", sessions + 1, "resumed")
       ELSE /\ Commit(Cur, inflight)
            /\ lastEvent' = CallEvent("resumeIfPending", 0, "skipped")
  /\ lastCall' = "resumeIfPending"
  /\ UNCHANGED mintVars

\* ----------------------------------------------------------- poller events
\* the setInterval callback: issues server.getTransaction(txHash)
Tick ==
  /\ pollInterval \in intervals
  /\ elapsed >= nextTick
  /\ nextTick' = nextTick + POLLING_INTERVAL
  /\ inflight' = IF Total(inflight) < MaxInFlight
                   THEN [inflight EXCEPT ![pollInterval] = @ + 1]
                   ELSE inflight
  /\ lastEvent' = CallbackEvent("tick", pollInterval, txHashOf[pollInterval])
  /\ UNCHANGED <<transactionState, transactionHash, transactionError,
                 pollInterval, timeoutTimer, intervals, timeouts, elapsed,
                 sessions, txHashOf, lastCall>>
  /\ UNCHANGED mintVars

\* a pending query settles and the rest of checkTransactionStatus runs
Reply ==
  \E s \in Sessions, response \in Responses :
    /\ inflight[s] > 0
    /\ Commit(checkTransactionStatus(Cur, response),
              [inflight EXCEPT ![s] = @ - 1])
    /\ lastEvent' = CallbackEvent("reply", s, response)
    /\ UNCHANGED lastCall
    /\ UNCHANGED mintVars

\* the setTimeout callback
Timeout ==
  /\ timeoutTimer \in timeouts
  /\ elapsed >= MAX_POLLING_DURATION
  /\ Commit(onTimeout(Cur), inflight)
  /\ lastEvent' = CallbackEvent("timeout", timeoutTimer, Null)
  /\ UNCHANGED lastCall
  /\ UNCHANGED mintVars

\* the clock moves to the next instant at which an armed timer is due
NextDue ==
  IF pollInterval # 0 /\ nextTick < MAX_POLLING_DURATION
    THEN nextTick ELSE MAX_POLLING_DURATION

AdvanceTime ==
  /\ pollInterval # 0 \/ timeoutTimer # 0
  /\ pollInterval # 0 => elapsed < nextTick
  /\ timeoutTimer # 0 => elapsed < MAX_POLLING_DURATION
  /\ elapsed' = NextDue
  /\ lastEvent' = CallbackEvent("time", pollInterval, Null)
  /\ UNCHANGED <<transactionState, transactionHash, transactionError,
                 pollInterval, timeoutTimer, intervals, timeouts, nextTick,
                 sessions, txHashOf, inflight, lastCall>>
  /\ UNCHANGED mintVars

\* page reload: the module is evaluated again (a new observer with null
\* timers, pending promises are gone) and the store is rehydrated
Reload ==
  /\ pollInterval' = 0
  /\ timeoutTimer' = 0
  /\ intervals' = {}
  /\ timeouts' = {}
  /\ elapsed' = 0
  /\ nextTick' = 0
  /\ inflight' = [s \in Sessions |-> 0]
  /\ txHashOf' = [s \in Sessions |-> Null]
  /\ lastEvent' = CallEvent("reload", 0, Null)
  /\ UNCHANGED <<transactionState, transactionHash, transactionError,
                 sessions, lastCall>>
  /\ UNCHANGED mintVars

Calls ==
  \/ StartTransaction
  \/ MarkSimulating
  \/ MarkSimulated
  \/ MarkSigning
  \/ MarkSigned
  \/ MarkSubmitting
  \/ MarkSubmitted
  \/ MarkFailed
  \/ ResetState
  \/ ResumeIfPending
  \/ Reload

PollerEvents ==
  \/ Tick
  \/ Reply
  \/ Timeout
  \/ AdvanceTime

Next == Calls \/ PollerEvents

Spec == Init /\ [][Next]_vars

\* The caller leaves the observer alone while a polling session is live;
\* armed timers fire when they are due and the clock does not stop.
QuietNext ==
  \/ pollInterval = 0 /\ Calls
  \/ PollerEvents

QuietSpec ==
  /\ Init
  /\ [][QuietNext]_vars
  /\ WF_vars(Tick)
  /\ WF_vars(Timeout)
  /\ WF_vars(AdvanceTime)

\* ------------------------------------------------------ mintWrap: actions
\* whether writing m changes the store
Changes(m) ==
  <<m.transactionState, m.transactionHash, m.transactionError>>
    # <<transactionState, transactionHash, transactionError>>

\* changed: the invocation has changed the store, in this step or before;
\* superseded: the invocation had reset the store and another one has reset
\* it since
MintEvent(op, c, a, data, result, m, threw) ==
  [op |-> op, call |-> c, arg |-> a, data |-> data, result |-> result,
   changed |-> (calls[c].changed \/ Changes(m)), threw |-> threw,
   superseded |-> (calls[c].pc \in {"bridge", "observed"} /\ owner # c)]

NextCall(c) ==
  /\ calls[c].pc = "notCalled"
  /\ \A d \in CallIds : d < c => calls[d].pc # "notCalled"

ObserverUntouched ==
  UNCHANGED <<pollInterval, timeoutTimer, intervals, timeouts, elapsed, nextTick, sessions,
              txHashOf, inflight, lastEvent, lastCall>>

StoreIs(m) ==
  /\ transactionState' = m.transactionState
  /\ transactionHash' = m.transactionHash
  /\ transactionError' = m.transactionError

\* mintWrap(params) up to its first await: initWalletKit, then either the
\* stats fetch is awaited or the store is reset and the bridge is called
MintWrapCalled(c) ==
  \E obs \in ObserverKinds, stats \in StatsInputs :
    LET m == IF stats = NoStats THEN Cur ELSE mintBegin(Cur) IN
    /\ NextCall(c)
    /\ isInitialized' = TRUE
    /\ calls' = [calls EXCEPT ![c] =
         [pc |-> IF stats = NoStats THEN "stats" ELSE "bridge",
          observer |-> obs, changed |-> Changes(m)]]
    /\ StoreIs(m)
    /\ owner' = IF stats = NoStats THEN owner ELSE c
    /\ lastMint' = MintEvent("call", c, stats, NoData, Null, m, FALSE)
    /\ ObserverUntouched

\* StellarWalletsKit.init throws on the first call: straight to the catch
MintWrapInitThrows(c) ==
  \E e \in Throwables :
    LET m == mintCatch(Cur, e) IN
    /\ NextCall(c)
    /\ ~ isInitialized
    /\ StoreIs(m)
    /\ calls' = [calls EXCEPT ![c] = Done("rejected")]
    /\ lastMint' = MintEvent("reject", c, e, NoData, mintRejection(e), m, FALSE)
    /\ UNCHANGED <<isInitialized, owner>>
    /\ ObserverUntouched

\* fetchIndexedStats has settled; the store is reset and the bridge called
\* with the stats it returned
FetchSettled(c) ==
  \E outcome \in FetchOutcomes :
    LET m == mintBegin(Cur) IN
    /\ calls[c].pc = "stats"
    /\ calls' = [calls EXCEPT ![c].pc = "bridge",
                              ![c].changed = @ \/ Changes(m)]
    /\ StoreIs(m)
    /\ owner' = c
    /\ lastMint' = MintEvent("fetched", c, outcome.kind, NoData,
                             fetchIndexedStats(outcome), m, FALSE)
    /\ UNCHANGED isInitialized
    /\ ObserverUntouched

\* the bridge reports a state: bridgedObserver calls the caller's observer
\* first, and reaches its switch only when that call returns
BridgeNotifies(c) ==
  \E state \in BridgeStates :
    \E data \in DataFor(state) :
      LET threw == calls[c].observer = "throws"
          m == IF threw THEN Cur ELSE bridgedObserver(Cur, state, data)
      IN
      /\ calls[c].pc = "bridge"
      /\ StoreIs(m)
      /\ calls' = [calls EXCEPT ![c].changed = @ \/ Changes(m)]
      /\ lastMint' = MintEvent("notify", c, state, data, Null, m, threw)
      /\ UNCHANGED <<isInitialized, owner>>
      /\ ObserverUntouched

\* contractMintWrap resolves with result.transactionHash
BridgeResolves(c) ==
  \E hash \in Hashes :
    LET m == mintResolve(Cur, hash) IN
    /\ calls[c].pc = "bridge"
    /\ StoreIs(m)
    /\ calls' = [calls EXCEPT ![c] = Done("resolved")]
    /\ lastMint' = MintEvent("resolve", c, hash, NoData, hash, m, FALSE)
    /\ UNCHANGED <<isInitialized, owner>>
    /\ ObserverUntouched

\* contractMintWrap rejects
BridgeRejects(c) ==
  \E e \in Throwables :
    LET m == mintCatch(Cur, e) IN
    /\ calls[c].pc = "bridge"
    /\ StoreIs(m)
    /\ calls' = [calls EXCEPT ![c] = Done("rejected")]
    /\ lastMint' = MintEvent("reject", c, e, NoData, mintRejection(e), m, FALSE)
    /\ UNCHANGED <<isInitialized, owner>>
    /\ ObserverUntouched

\* the mintWrap that drives transactionObserver, up to its await:
\* initWalletKit, startTransaction, markSimulating, invokeMintWrapContract
ObservedMintWrapCalled(c) ==
  LET m == observedBegin(Cur) IN
  /\ NextCall(c)
  /\ isInitialized' = TRUE
  /\ Commit(m, inflight)
  /\ lastEvent' = CallEvent("markSimulating", 0, Null)
  /\ lastCall' = "markSimulating"
  /\ calls' = [calls EXCEPT ![c] =
       [pc |-> "observed", observer |-> "none", changed |-> Changes(m)]]
  /\ owner' = c
  /\ lastMint' = MintEvent("call", c, NoStats, NoData, Null, m, FALSE)

\* the promise of invokeMintWrapContract is rejected: the catch block
ObservedMintWrapRejects(c) ==
  LET m == observedCatch(Cur, PendingError) IN
  /\ calls[c].pc = "observed"
  /\ Commit(m, inflight)
  /\ lastEvent' = CallEvent("markFailed", 0, PendingError)
  /\ lastCall' = "markFailed"
  /\ calls' = [calls EXCEPT ![c] = Done("rejected")]
  /\ lastMint' = MintEvent("reject", c, PendingError, NoData,
                           observedRejection(PendingError), m, FALSE)
  /\ UNCHANGED <<isInitialized, owner>>

MintNext ==
  \E c \in CallIds :
    \/ MintWrapCalled(c)
    \/ MintWrapInitThrows(c)
    \/ FetchSettled(c)
    \/ BridgeNotifies(c)
    \/ BridgeResolves(c)
    \/ BridgeRejects(c)
    \/ ObservedMintWrapCalled(c)
    \/ ObservedMintWrapRejects(c)

MintSpec == Init /\ [][MintNext]_vars

TypeOK ==
  /\ transactionState \in TransactionState
  /\ transactionHash \in Hashes \cup {Null}
  /\ pollInterval \in 0..MaxSessions
  /\ timeoutTimer \in 0..MaxSessions
  /\ intervals \subseteq Sessions
  /\ timeouts \subseteq Sessions
  /\ elapsed \in 0..MAX_POLLING_DURATION
  /\ sessions \in 0..MaxSessions
  /\ \A s \in Sessions : inflight[s] \in 0..MaxInFlight
  /\ isInitialized \in BOOLEAN
  /\ owner \in 0..MaxCalls
  /\ \A c \in CallIds :
       /\ calls[c].pc \in {"notCalled", "stats", "bridge", "observed",
                           "resolved", "rejected"}
       /\ calls[c].observer \in ObserverKinds
       /\ calls[c].changed \in BOOLEAN
  /\ lastMint.op \in {"init", "call", "fetched", "notify", "resolve", "reject"}
  /\ lastMint.call \in 0..MaxCalls

\* ------------------------------------------------------------------ claims
Store == <<transactionState, transactionHash, transactionError>>

Timers == <<pollInterval, timeoutTimer>>

NoTimers == pollInterval = 0 /\ timeoutTimer = 0

Terminal == {"confirmed", "failed"}

\* C1: once resetState has returned and until the observer is called again,
\* the tag stays idle, hash and error stay null and no timer is armed, even
\* when a query of the cancelled session settles later.
C1_QuietAfterReset ==
  lastCall = "resetState" =>
    /\ transactionState = "idle"
    /\ transactionHash = Null
    /\ transactionError = Null
    /\ NoTimers

\* C2: while the session started by a later markSubmitted(h2) is live, the
\* reply to a query issued for the hash h1 of an earlier session changes
\* neither the store nor the timers of the live session.
C2_StaleReplyIsNoOp ==
  [][ ( /\ lastCall = "markSubmitted"
        /\ pollInterval # 0
        /\ lastEvent'.op = "reply"
        /\ lastEvent'.sess # pollInterval
        /\ txHashOf[lastEvent'.sess] # txHashOf[pollInterval] )
      => UNCHANGED <<Store, Timers>> ]_vars

\* C3: right after resetState, whatever the state it was called in, the tag
\* is idle, hash and error are null and neither timer is armed.
C3_ResetClearsAll ==
  lastEvent.op = "resetState" =>
    /\ transactionState = "idle"
    /\ transactionHash = Null
    /\ transactionError = Null
    /\ NoTimers

\* resetState was called while timers were armed and a query was pending
C3_Witness ==
  /\ lastEvent.op = "resetState"
  /\ lastEvent.live
  /\ \E s \in Sessions : inflight[s] > 0

\* C4: the deadline fires MAX_POLLING_DURATION after the timers were armed;
\* right after it the tag is failed with the timeout message, both timers
\* are cleared and the interval cannot fire (no further query is issued).
C4_Timeout ==
  /\ [][ lastEvent'.op = "timeout" => elapsed = MAX_POLLING_DURATION ]_vars
  /\ []( lastEvent.op = "timeout" =>
           /\ transactionState = "failed"
           /\ transactionError = TimeoutMessage
           /\ NoTimers
           /\ ~ ENABLED Tick )

\* the deadline of a live session fired while no query had changed the tag
C4_Witness ==
  /\ lastEvent.op = "timeout"
  /\ lastEvent.live
  /\ transactionState = "failed"
  /\ transactionError = TimeoutMessage

\* C5: once a callback of a polling session has set the tag to failed or
\* confirmed, no later tick or reply of that session changes the tag.
C5_PollerOutcomeIsFinal ==
  [][ ( /\ \/ lastEvent.op = "timeout"
           \/ lastEvent.op = "reply" /\ lastEvent.arg \in {"SUCCESS", "FAILED"}
        /\ lastEvent.live
        /\ transactionState \in Terminal
        /\ lastEvent'.op \in {"tick", "reply"}
        /\ lastEvent'.sess = lastEvent.sess )
      => transactionState' = transactionState ]_vars

\* C6: a SUCCESS reply to a query of the live session for hash h leaves the
\* tag confirmed, the stored hash h, the error null and both timers cleared.
C6_ConfirmedWithinBudget ==
  [][ ( /\ lastEvent'.op = "reply"
        /\ lastEvent'.arg = "SUCCESS"
        /\ lastEvent'.live )
      => /\ transactionState' = "confirmed"
         /\ transactionHash' = txHashOf[lastEvent'.sess]
         /\ transactionError' = Null
         /\ NoTimers' ]_vars

\* C7: right after a FAILED reply to a query of the live session the tag is
\* failed with the ledger-failure message, both timers are cleared and
\* neither the interval nor the deadline of that session can fire.
C7_LedgerFailure ==
  ( /\ lastEvent.op = "reply"
    /\ lastEvent.arg = "FAILED"
    /\ lastEvent.live )
  => /\ transactionState = "failed"
     /\ transactionError = LedgerFailedMessage
     /\ NoTimers
     /\ ~ ENABLED Tick
     /\ ~ ENABLED Timeout

C7_Witness ==
  /\ lastEvent.op = "reply"
  /\ lastEvent.arg = "FAILED"
  /\ lastEvent.live
  /\ transactionState = "failed"

\* C8: a query that returns NOT_FOUND or throws changes neither the store
\* nor the timers, and among the poller's events only a FAILED reply or the
\* deadline moves the tag to failed.
C8_TransientIsNoTransition ==
  /\ [][ ( /\ lastEvent'.op = "reply"
           /\ lastEvent'.arg \in {"NOT_FOUND", "THROWS"} )
         => UNCHANGED <<Store, Timers, elapsed, nextTick>> ]_vars
  /\ [][ ( /\ lastEvent'.op \in {"tick", "reply", "timeout", "time"}
           /\ transactionState # "failed"
           /\ transactionState' = "failed" )
         => \/ lastEvent'.op = "timeout"
            \/ lastEvent'.op = "reply" /\ lastEvent'.arg = "FAILED" ]_vars

\* a query of the live session threw and the session is still polling
C8_Witness ==
  /\ lastEvent.op = "reply"
  /\ lastEvent.arg = "THROWS"
  /\ lastEvent.live
  /\ transactionState = "confirming"
  /\ pollInterval # 0

\* C9: when the caller leaves the observer alone, every polling session
\* ends, with the tag confirmed or failed and both timers cleared, and it is
\* never live beyond its deadline.
C9_BoundedWaiting ==
  /\ []( pollInterval # 0 => elapsed <= MAX_POLLING_DURATION )
  /\ ( pollInterval # 0 ) ~>
       ( NoTimers /\ transactionState \in Terminal )

\* a session was ended by its own deadline or by a reply to its own query
C9_Witness ==
  /\ lastEvent.op \in {"timeout", "reply"}
  /\ lastEvent.live
  /\ NoTimers
  /\ transactionState \in Terminal

\* C10: markFailed, called in any state, leaves the tag failed, the error
\* equal to the message of its argument, both timers cleared and the hash
\* as it was.
C10_MarkFailed ==
  [][ lastEvent'.op = "markFailed" =>
        /\ transactionState' = "failed"
        /\ transactionError' =
             ( IF lastEvent'.arg.kind = "Error"
                 THEN lastEvent'.arg.message ELSE lastEvent'.arg.value )
        /\ NoTimers'
        /\ transactionHash' = transactionHash ]_vars

\* markFailed was called with an Error object while a session was polling
C10_Witness ==
  /\ lastEvent.op = "markFailed"
  /\ lastEvent.live
  /\ lastEvent.arg.kind = "Error"
  /\ transactionHash # Null
  /\ transactionError = "rejected by user"

\* the tag each mutator is named after
TargetTag ==
  [ startTransaction |-> "building",
    markSimulating   |-> "simulating",
    markSimulated    |-> "simulated",
    markSigning      |-> "signing",
    markSigned       |-> "signed",
    markSubmitting   |-> "submitting",
    markSubmitted    |-> "submitted",
    markFailed       |-> "failed",
    resetState       |-> "idle" ]

\* C11 as stated: right after any mutator the tag is the target tag of that
\* mutator, submitted for markSubmitted.
C11_TagIsLastMutator ==
  lastEvent.op \in DOMAIN TargetTag =>
    transactionState = TargetTag[lastEvent.op]

\* C11 as amended: right after any mutator the tag is the target tag of that
\* mutator, except that markSubmitted, which starts the poller, leaves the
\* tag confirming.
C11_TagIsLastMutatorAmended ==
  lastEvent.op \in DOMAIN TargetTag =>
    transactionState =
      ( IF lastEvent.op = "markSubmitted"
          THEN "confirming" ELSE TargetTag[lastEvent.op] )

\* markSubmitted has just run on top of an earlier live session
C11_Witness ==
  /\ lastEvent.op = "markSubmitted"
  /\ lastEvent.live
  /\ transactionState = "confirming"

\* C12: between operations transactionError is non-null exactly when the tag
\* is failed.
C12_ErrorIffFailed ==
  (transactionError # Null) <=> (transactionState = "failed")

\* C13: between operations a non-null transactionHash implies that the tag
\* is submitted, confirming, confirmed or failed.
C13_HashOnlyAfterSubmission ==
  transactionHash # Null =>
    transactionState \in {"submitted", "confirming", "confirmed", "failed"}

\* C14: resumeIfPending starts a fresh polling session for the stored hash,
\* with the full deadline and the tag confirming, exactly when the tag is
\* submitted or confirming and the hash is not null; otherwise it changes
\* neither the store nor the timers.
C14_ResumeIfPending ==
  [][ lastEvent'.op = "resumeIfPending" =>
        IF /\ transactionState \in {"submitted", "confirming"}
           /\ transactionHash # Null
          THEN /\ transactionState' = "confirming"
               /\ transactionHash' = transactionHash
               /\ transactionError' = transactionError
               /\ pollInterval' = sessions + 1
               /\ timeoutTimer' = pollInterval'
               /\ txHashOf'[pollInterval'] = transactionHash
               /\ elapsed' = 0
               /\ nextTick' = POLLING_INTERVAL
          ELSE UNCHANGED <<Store, Timers, elapsed, nextTick>> ]_vars

\* after a reload left the tag confirming with no timers, resumeIfPending
\* re-attached a poller
C14_Witness ==
  /\ lastEvent.op = "resumeIfPending"
  /\ lastEvent.arg = "resumed"
  /\ ~ lastEvent.live
  /\ pollInterval # 0
  /\ elapsed = 0

\* C15: when a step of mintWrap throws an Error that is none of the four
\* typed errors, the store ends with tag failed and transactionError equal
\* to its message, and mintWrap rejects with an Error whose message is
\* "Minting failed: " followed by that message; a typed error is re-thrown
\* as it is.
C15_MintErrorPolicy ==
  lastMint.op = "reject" =>
    IF lastMint.arg.kind \in TypedErrors
      THEN lastMint.result = lastMint.arg
      ELSE lastMint.arg.kind = "Error" =>
             /\ transactionState = "failed"
             /\ transactionError = lastMint.arg.message
             /\ lastMint.result =
                  [kind |-> "Error",
                   message |-> "Minting failed: " \o lastMint.arg.message]

\* the bridge has rejected with a plain Error and mintWrap has wrapped it
C15_Witness ==
  /\ lastMint.op = "reject"
  /\ lastMint.arg = [kind |-> "Error", message |-> "User rejected the request"]
  /\ transactionError = "User rejected the request"
  /\ lastMint.result.message = "Minting failed: User rejected the request"

\* C16: a mintWrap that ends by throwing one of the typed errors has not
\* changed the tag, the hash or the error of the store.
C16_TypedErrorBypasses ==
  (lastMint.op = "reject" /\ lastMint.arg.kind \in TypedErrors) =>
    ~ lastMint.changed

\* C17: when the caller's observer throws, a notification still writes its
\* tag to the store and the exception does not leave the notification.
C17_SinkIsolation ==
  (lastMint.op = "notify" /\ calls[lastMint.call].observer = "throws") =>
    /\ ~ lastMint.threw
    /\ transactionState =
         bridgedObserver(Cur, lastMint.arg, lastMint.data).transactionState

\* C18: after a notification that was delivered to the store, the tag of
\* the store is the tag that was notified.
C18_StoreTagIsNotifiedTag ==
  ( /\ lastMint.op = "notify"
    /\ ~ lastMint.threw
    /\ lastMint.arg \in TransactionState ) =>
    transactionState = lastMint.arg

\* C19: once a later mintWrap has reset the store, no notification, success
\* write or failure write of an earlier mintWrap changes the tag, the hash
\* or the error.
C19_SupersededCallIsInert ==
  [][ ( /\ lastMint'.op \in {"notify", "resolve", "reject"}
        /\ lastMint'.superseded ) =>
        UNCHANGED Store ]_vars

\* C20: when mintWrap resolves with a hash, the tag is confirmed and
\* transactionHash is that hash; an invocation that has settled otherwise
\* has rejected.
C20_ResolvesOnlyConfirmed ==
  /\ lastMint.op = "resolve" =>
       /\ transactionState = "confirmed"
       /\ transactionHash = lastMint.arg
       /\ lastMint.result = lastMint.arg
       /\ calls[lastMint.call].pc = "resolved"
  /\ lastMint.op = "reject" => calls[lastMint.call].pc = "rejected"
  /\ \A c \in CallIds :
       calls[c].pc = "resolved" =>
         (lastMint.call = c => lastMint.op = "resolve")

\* mintWrap has resolved with a hash other than the one the bridge had
\* notified with confirmed
C20_Witness ==
  /\ lastMint.op = "resolve"
  /\ lastMint.changed
  /\ lastMint.arg = "h2"
  /\ transactionHash = "h2"

\* C21: when no stats are supplied and the stats fetch rejects or answers
\* with a response that is not ok, mintWrap goes on with totalVolume 0,
\* mostActiveAsset "XLM" and contractCalls 0: the store is reset, the tag is
\* building and the bridge is called.
C21_StatsFailureDoesNotBlock ==
  (lastMint.op = "fetched" /\ lastMint.arg \in {"rejects", "notOk"}) =>
    /\ lastMint.result = DefaultStats
    /\ transactionState = "building"
    /\ transactionHash = Null
    /\ transactionError = Null
    /\ calls[lastMint.call].pc = "bridge"

\* the fetch of a second mintWrap has been rejected while the store held
\* the failure of the first one
C21_Witness ==
  /\ lastMint.op = "fetched"
  /\ lastMint.arg = "rejects"
  /\ lastMint.call = 2
  /\ lastMint.changed
  /\ calls[1].pc = "rejected"
  /\ transactionState = "building"

\* C22: at most one interval timer and at most one deadline timer are
\* armed, they are the ones the observer's fields refer to and they belong
\* to the same session, so they are armed or cleared together; right after
\* a session was started on top of a live one, only the new timers are
\* armed.
C22_AtMostOneSession ==
  /\ Cardinality(intervals) <= 1
  /\ Cardinality(timeouts) <= 1
  /\ intervals = timeouts
  /\ intervals = (IF pollInterval = 0 THEN {} ELSE {pollInterval})
  /\ timeouts = (IF timeoutTimer = 0 THEN {} ELSE {timeoutTimer})
  /\ ( /\ lastEvent.op \in {"markSubmitted", "resumeIfPending"}
       /\ lastEvent.sess # 0 ) =>
       /\ intervals = {lastEvent.sess}
       /\ timeouts = {lastEvent.sess}

\* markSubmitted has started the second session while the first was live
C22_Witness ==
  /\ lastEvent.op = "markSubmitted"
  /\ lastEvent.live
  /\ lastEvent.sess = 2
  /\ intervals = {2}
  /\ timeouts = {2}

\* C23: between operations a tag of idle, confirmed or failed implies that
\* neither timer is armed, also when the tag was written by the reply to a
\* query of an older session.
C23_NoSessionOutlivesState ==
  transactionState \in {"idle", "confirmed", "failed"} =>
    /\ NoTimers
    /\ intervals = {}
    /\ timeouts = {}

\* the reply to a query of the first session has confirmed the transaction
\* after the second session was started, and no timer is left
C23_Witness ==
  /\ lastEvent.op = "reply"
  /\ lastEvent.sess = 1
  /\ ~ lastEvent.live
  /\ lastEvent.arg = "SUCCESS"
  /\ sessions = 2
  /\ transactionState = "confirmed"
  /\ NoTimers
====
